---- MODULE Spec2Model ----
(***************************************************************************)
(* wg-quick-config: the configuration model and the allocation engine.     *)
(*                                                                         *)
(* Go values are modelled as follows.                                      *)
(*   []byte, net.IP, net.IPMask : sequence of bytes 0..255 (nil = << >>)   *)
(*   string                     : sequence of ASCII codes ("" = << >>)     *)
(*   net.IPNet                  : [IP, Mask]                               *)
(*   Peer, WireguardConfig      : records with the Go field names          *)
(*   *big.Int (non-negative)    : big-endian magnitude, no leading zero    *)
(***************************************************************************)
EXTENDS Integers, Sequences, FiniteSets, TLC

VARIABLES
    state,      \* where the process is: "start", "provisioned", "error", "fatal", "panic"
    config,     \* the appConfig value: [Server, Clients]
    subnet,     \* what configureWireguardSubnet returned to newConfig: [ip, net, err]
    keyErr,     \* the err result newWireguardPrivateKey returned with each stored key
    chain,      \* NextIP driver: the addresses produced so far
    nstate,     \* NextIP driver: "idle", "run", "panicked"
    written,    \* what the last updateWireguardConfigFiles call wrote: [client, server]
    arg,        \* function drivers: the argument of the function called
    ret,        \* function drivers: what the call returned
    fstate      \* function drivers: "idle", "ready", "done"

vars == <<state, config, subnet, keyErr, chain, nstate, written, arg, ret, fstate>>

----------------------------------------------------------------------------
(* Bounds of the model.                                                    *)

MaxClients == 4     \* addClient is not called once this many clients exist
MaxWidth == 4       \* NextIP driver: every width 1..MaxWidth is enumerated
ChainLen == 3       \* NextIP driver: number of addresses per chain
MaxPeers == 2       \* String driver: a configuration has 0..MaxPeers peers
MaxEntries == 2     \* DNS driver: a DNS text has 1..MaxEntries entries
MaxBlocks == 2      \* clientIpNetToPeer driver: 0..MaxBlocks address blocks

----------------------------------------------------------------------------
(* Bytes and sequences.                                                    *)

RECURSIVE BitAnd(_, _)
BitAnd(a, b) ==
    IF a = 0 \/ b = 0 THEN 0
    ELSE (a % 2) * (b % 2) + 2 * BitAnd(a \div 2, b \div 2)

RECURSIVE BitOr(_, _)
BitOr(a, b) ==
    IF a = 0 THEN b
    ELSE IF b = 0 THEN a
    ELSE (IF (a % 2) + (b % 2) > 0 THEN 1 ELSE 0) + 2 * BitOr(a \div 2, b \div 2)

Zeros(n) == [i \in 1..n |-> 0]

AllFF(s) == \A i \in 1..Len(s) : s[i] = 255

----------------------------------------------------------------------------
(* math/big as NextIP uses it.                                             *)

RECURSIVE StripZeros(_)
StripZeros(b) ==
    IF Len(b) > 0 /\ b[1] = 0 THEN StripZeros(Tail(b)) ELSE b

\* big.NewInt(0).SetBytes(b): the magnitude of b read big-endian.
BigSetBytes(b) == StripZeros(b)

\* ipb.Add(ipb, big.NewInt(1)) on a magnitude: carry from the last byte.
RECURSIVE BigAddOne(_)
BigAddOne(m) ==
    IF Len(m) = 0 THEN <<1>>
    ELSE IF m[Len(m)] < 255 THEN [m EXCEPT ![Len(m)] = @ + 1]
    ELSE Append(BigAddOne(SubSeq(m, 1, Len(m) - 1)), 0)

\* ipb.Bytes(): the magnitude itself.
BigBytes(m) == m

----------------------------------------------------------------------------
(* NextIP.  make([]byte, n) with n < 0 is a run-time panic; the operator   *)
(* then has no address to return and yields Panicked.                      *)

Panicked == <<256>>

\* Variant of NextIP: the leading zero bytes are not put back.
NextIPNoPad(ip) ==
    LET ipb == BigAddOne(BigSetBytes(ip))
        b   == BigBytes(ipb)
        pad == Len(ip) - Len(b)
    IN  IF pad < 0 THEN Panicked ELSE b

NextIP(ip) ==
    LET ipb == BigAddOne(BigSetBytes(ip))
        b   == BigBytes(ipb)
        pad == Len(ip) - Len(b)
    IN  IF pad < 0 THEN Panicked ELSE Zeros(pad) \o b

IsPanic(x) == x = Panicked

----------------------------------------------------------------------------
(* Package net, as far as the program uses it.                             *)

IPv4len == 4
IPv6len == 16

v4InV6Prefix == <<0, 0, 0, 0, 0, 0, 0, 0, 0, 0, 255, 255>>

\* net.IPv4(a, b, c, d): the 16-byte form of an IPv4 address.
IPv4(a, b, c, d) == v4InV6Prefix \o <<a, b, c, d>>

\* ip.To4(): the 4-byte form, or nil when ip is not an IPv4 address.
To4(ip) ==
    IF Len(ip) = IPv4len THEN ip
    ELSE IF Len(ip) = IPv6len /\ SubSeq(ip, 1, 12) = v4InV6Prefix
         THEN SubSeq(ip, 13, 16)
    ELSE << >>

\* ip.To16()
To16(ip) ==
    IF Len(ip) = IPv4len THEN v4InV6Prefix \o ip
    ELSE IF Len(ip) = IPv6len THEN ip
    ELSE << >>

\* One byte of a mask that has n leading one bits left to place.
MaskByte(n) ==
    IF n >= 8 THEN 255
    ELSE IF n <= 0 THEN 0
    ELSE 256 - 2 ^ (8 - n)

\* net.CIDRMask(ones, bits)
CIDRMask(ones, bits) ==
    IF bits \notin {8 * IPv4len, 8 * IPv6len} \/ ones < 0 \/ ones > bits
    THEN << >>
    ELSE [i \in 1..(bits \div 8) |-> MaskByte(ones - 8 * (i - 1))]

\* ip.Mask(mask)
IPMask(ip, mask) ==
    LET m == IF Len(mask) = IPv6len /\ Len(ip) = IPv4len /\ AllFF(SubSeq(mask, 1, 12))
             THEN SubSeq(mask, 13, 16) ELSE mask
        a == IF Len(m) = IPv4len /\ Len(ip) = IPv6len /\ SubSeq(ip, 1, 12) = v4InV6Prefix
             THEN SubSeq(ip, 13, 16) ELSE ip
    IN  IF Len(a) # Len(m) THEN << >>
        ELSE [i \in 1..Len(a) |-> BitAnd(a[i], m[i])]

\* networkNumberAndMask(n): the pair used by Contains, << >> for nil.
networkNumberAndMask(n) ==
    LET ip4 == To4(n.IP)
        ip  == IF ip4 # << >> THEN ip4 ELSE n.IP
        m   == n.Mask
    IN  IF ip4 = << >> /\ Len(n.IP) # IPv6len THEN [ip |-> << >>, m |-> << >>]
        ELSE IF Len(m) = IPv4len
             THEN IF Len(ip) # IPv4len THEN [ip |-> << >>, m |-> << >>]
                  ELSE [ip |-> ip, m |-> m]
        ELSE IF Len(m) = IPv6len
             THEN IF Len(ip) = IPv4len THEN [ip |-> ip, m |-> SubSeq(m, 13, 16)]
                  ELSE [ip |-> ip, m |-> m]
        ELSE [ip |-> << >>, m |-> << >>]

\* n.Contains(ip)
Contains(n, ip) ==
    LET nm == networkNumberAndMask(n)
        x  == IF To4(ip) # << >> THEN To4(ip) ELSE ip
    IN  /\ Len(x) = Len(nm.ip)
        /\ \A i \in 1..Len(x) : BitAnd(nm.ip[i], nm.m[i]) = BitAnd(x[i], nm.m[i])

\* net.ParseCIDR on a text "addr/bits".  The text is given by what the
\* address parser reads from it: kind "cidr" with the address bytes (4 for
\* dotted decimal, 16 for IPv6 text) and the number after the slash, or kind
\* "malformed" for a text that is no address/number pair.
ParseCIDR(text) ==
    LET bitLen == 8 * Len(text.addr)
        m      == CIDRMask(text.bits, bitLen)
        addr16 == To16(text.addr)
    IN  IF text.kind # "cidr" \/ text.bits < 0 \/ text.bits > bitLen
        THEN [ip |-> << >>, net |-> [IP |-> << >>, Mask |-> << >>], err |-> TRUE]
        ELSE [ip |-> addr16, net |-> [IP |-> IPMask(addr16, m), Mask |-> m], err |-> FALSE]

----------------------------------------------------------------------------
(* Keys.                                                                   *)

WireguardPublicKeySize == 32
WireguardPrivateKeySize == 32

\* Variant of clamp: bit 6 of the last byte is not set.
clampNoSet(sk) ==
    [sk EXCEPT ![1] = BitAnd(@, 248),
               ![32] = BitAnd(@, 127)]

\* sk.clamp()
clamp(sk) ==
    [sk EXCEPT ![1] = BitAnd(@, 248),
               ![32] = BitOr(BitAnd(@, 127), 64)]

\* newWireguardPrivateKey().  read is what rand.Read did to the zeroed
\* array: [bytes, err], bytes being the array after the call.
newWireguardPrivateKey(read) == [sk |-> clamp(read.bytes), err |-> read.err]

\* sk.publicKey().  curve25519.ScalarBaseMult is a deterministic function of
\* the scalar and one-to-one on the scalars used here; the group arithmetic
\* is replaced by a byte permutation with those two properties.
publicKey(sk) ==
    [i \in 1..WireguardPublicKeySize |->
        (sk[WireguardPrivateKeySize + 1 - i] + 7 * i) % 256]

\* The alphabet of base64.StdEncoding: the ASCII code of digit v.
encodeStd(v) ==
    IF v < 26 THEN 65 + v
    ELSE IF v < 52 THEN 97 + (v - 26)
    ELSE IF v < 62 THEN 48 + (v - 52)
    ELSE IF v = 62 THEN 43
    ELSE 47

PadChar == 61

\* base64.StdEncoding.EncodeToString(src)
RECURSIVE EncodeToString(_)
EncodeToString(src) ==
    IF Len(src) = 0 THEN << >>
    ELSE IF Len(src) = 1
         THEN <<encodeStd(src[1] \div 4), encodeStd((src[1] % 4) * 16),
                PadChar, PadChar>>
    ELSE IF Len(src) = 2
         THEN <<encodeStd(src[1] \div 4),
                encodeStd((src[1] % 4) * 16 + src[2] \div 16),
                encodeStd((src[2] % 16) * 4),
                PadChar>>
    ELSE <<encodeStd(src[1] \div 4),
           encodeStd((src[1] % 4) * 16 + src[2] \div 16),
           encodeStd((src[2] % 16) * 4 + src[3] \div 64),
           encodeStd(src[3] % 64)>>
         \o EncodeToString(SubSeq(src, 4, Len(src)))

\* sk.base64PrivateKey()
base64PrivateKey(sk) == EncodeToString(sk)

\* sk.base64PublicKey()
base64PublicKey(sk) == EncodeToString(publicKey(sk))

----------------------------------------------------------------------------
(* Strings and package strconv.                                            *)

Colon == 58
LBracket == 91
RBracket == 93

IsDigit(c) == c >= 48 /\ c <= 57

\* The decimal text of n (fmt's %d, strconv.Itoa).
RECURSIVE Itoa(_)
Itoa(n) ==
    IF n < 0 THEN <<45>> \o Itoa(0 - n)
    ELSE IF n < 10 THEN <<48 + n>>
    ELSE Append(Itoa(n \div 10), 48 + (n % 10))

RECURSIVE DigitsValue(_)
DigitsValue(s) ==
    IF Len(s) = 0 THEN 0
    ELSE 10 * DigitsValue(SubSeq(s, 1, Len(s) - 1)) + (s[Len(s)] - 48)

\* strconv.Atoi(s) for texts short enough for its fast path: an optional
\* sign, then one or more decimal digits.
Atoi(s) ==
    LET signed == Len(s) > 0 /\ s[1] \in {43, 45}
        digits == IF signed THEN Tail(s) ELSE s
        ok     == Len(digits) > 0 /\ \A i \in 1..Len(digits) : IsDigit(digits[i])
    IN  IF ~ok THEN [n |-> 0, err |-> TRUE]
        ELSE [n |-> IF signed /\ s[1] = 45 THEN 0 - DigitsValue(digits)
                    ELSE DigitsValue(digits),
              err |-> FALSE]

IndexSet(s, c) == {i \in 1..Len(s) : s[i] = c}

Max(S) == CHOOSE x \in S : \A y \in S : y <= x
Min(S) == CHOOSE x \in S : \A y \in S : x <= y

\* net.SplitHostPort(hostport), hostport not empty.
SplitHostPort(hostport) ==
    LET colons == IndexSet(hostport, Colon)
        i      == IF colons = {} THEN 0 ELSE Max(colons)
        fail   == [host |-> << >>, port |-> << >>, err |-> TRUE]
        closes == IndexSet(hostport, RBracket)
        end    == IF closes = {} THEN 0 ELSE Min(closes)
        brack  == hostport[1] = LBracket
        host   == IF brack THEN SubSeq(hostport, 2, end - 1)
                  ELSE SubSeq(hostport, 1, i - 1)
        j      == IF brack THEN 2 ELSE 1
        k      == IF brack THEN end + 1 ELSE 1
    IN  IF i = 0 THEN fail
        ELSE IF brack /\ (end = 0 \/ end + 1 # i) THEN fail
        ELSE IF ~brack /\ IndexSet(host, Colon) # {} THEN fail
        ELSE IF IndexSet(SubSeq(hostport, j, Len(hostport)), LBracket) # {} THEN fail
        ELSE IF IndexSet(SubSeq(hostport, k, Len(hostport)), RBracket) # {} THEN fail
        ELSE [host |-> host, port |-> SubSeq(hostport, i + 1, Len(hostport)), err |-> FALSE]

\* uint16(n) of an int n.
Uint16(n) == n % 65536


Comma == 44
Dot == 46

IsSpace(c) == c \in {9, 10, 11, 12, 13, 32}

\* strings.TrimSpace(s)
RECURSIVE TrimLeft(_)
TrimLeft(s) == IF Len(s) > 0 /\ IsSpace(s[1]) THEN TrimLeft(Tail(s)) ELSE s

RECURSIVE TrimRight(_)
TrimRight(s) ==
    IF Len(s) > 0 /\ IsSpace(s[Len(s)]) THEN TrimRight(SubSeq(s, 1, Len(s) - 1)) ELSE s

TrimSpace(s) == TrimRight(TrimLeft(s))

\* strings.Split(s, sep) for a one-character separator.
RECURSIVE Split(_, _)
Split(s, sep) ==
    LET at == IndexSet(s, sep)
    IN  IF at = {} THEN <<s>>
        ELSE <<SubSeq(s, 1, Min(at) - 1)>> \o Split(SubSeq(s, Min(at) + 1, Len(s)), sep)

\* One decimal field of a dotted IPv4 text: 1 to 3 digits, no leading zero,
\* at most 255.
IsIPv4Field(f) ==
    /\ Len(f) \in 1..3
    /\ \A i \in 1..Len(f) : IsDigit(f[i])
    /\ (Len(f) > 1 => f[1] # 48)
    /\ DigitsValue(f) <= 255

\* parseIPv4(s): dotted decimal gives the 16-byte form, anything else nil.
parseIPv4(s) ==
    LET f == Split(s, Dot)
    IN  IF Len(f) = 4 /\ \A i \in 1..4 : IsIPv4Field(f[i])
        THEN IPv4(DigitsValue(f[1]), DigitsValue(f[2]), DigitsValue(f[3]), DigitsValue(f[4]))
        ELSE << >>

IsHex(c) == IsDigit(c) \/ c \in 65..70 \/ c \in 97..102

HexVal(c) == IF IsDigit(c) THEN c - 48 ELSE IF c \in 65..70 THEN c - 55 ELSE c - 87

RECURSIVE HexValue(_)
HexValue(f) ==
    IF Len(f) = 0 THEN 0
    ELSE 16 * HexValue(SubSeq(f, 1, Len(f) - 1)) + HexVal(f[Len(f)])

\* One group of an IPv6 text: 1 to 4 hexadecimal digits.
IsIPv6Field(f) == Len(f) \in 1..4 /\ \A i \in 1..Len(f) : IsHex(f[i])

\* The bytes of the fields of an IPv6 text: two a group, four for a dotted
\* IPv4 tail.
RECURSIVE GroupBytes(_)
GroupBytes(f) ==
    IF Len(f) = 0 THEN << >>
    ELSE IF IsIPv6Field(f[1])
         THEN <<HexValue(f[1]) \div 256, HexValue(f[1]) % 256>> \o GroupBytes(Tail(f))
    ELSE To4(parseIPv4(f[1]))

\* The fields of an IPv6 text are well-formed: an empty first or last field
\* is half of a "::", at most one field within is empty, every other field is
\* a group or, the last one, a dotted IPv4 address.  f is the fields without
\* the outer halves of a leading and a trailing "::".
FieldsOk(f0, f) ==
    /\ f0[1] = << >> => (Len(f0) >= 2 /\ f0[2] = << >>)
    /\ f0[Len(f0)] = << >> => (Len(f0) >= 2 /\ f0[Len(f0) - 1] = << >>)
    /\ (f0[1] = << >> /\ f0[Len(f0)] = << >>) => Len(f0) >= 3
    /\ Cardinality(IndexSet(f, << >>)) <= 1
    /\ \A i \in 1..Len(f) : \/ f[i] = << >>
                            \/ IsIPv6Field(f[i])
                            \/ i = Len(f) /\ parseIPv4(f[i]) # << >>

\* f without its first field when that is empty.
DropLead(f) == IF Len(f) >= 2 /\ f[1] = << >> THEN Tail(f) ELSE f

\* f without its last field when that is empty.
DropTrail(f) ==
    IF Len(f) >= 2 /\ f[Len(f)] = << >> THEN SubSeq(f, 1, Len(f) - 1) ELSE f

\* The 16 bytes with zeros for the "::" between before and after; nil when
\* the "::" would stand for no group.
FillEllipsis(before, after) ==
    IF Len(before) + Len(after) >= IPv6len THEN << >>
    ELSE before \o Zeros(IPv6len - Len(before) - Len(after)) \o after

\* The address of well-formed fields f, e being the place of the "::", 0
\* when there is none.
ExpandFields(f, e) ==
    IF e = 0
    THEN (IF Len(GroupBytes(f)) = IPv6len THEN GroupBytes(f) ELSE << >>)
    ELSE FillEllipsis(GroupBytes(SubSeq(f, 1, e - 1)), GroupBytes(SubSeq(f, e + 1, Len(f))))

\* The place of the first empty field of f, 0 when there is none.
EllipsisAt(f) == IF IndexSet(f, << >>) = {} THEN 0 ELSE Min(IndexSet(f, << >>))

\* The address of the fields f0 of an IPv6 text.
FieldsAddress(f0, f) == IF FieldsOk(f0, f) THEN ExpandFields(f, EllipsisAt(f)) ELSE << >>

\* parseIPv6(s): the fields between the colons are groups, the last one may
\* be a dotted IPv4 address, one "::" stands for the groups left out (at
\* least one); anything else nil.
parseIPv6(s) == FieldsAddress(Split(s, Colon), DropTrail(DropLead(Split(s, Colon))))

\* net.ParseIP(s): the first '.' or ':' of the text says which form it is.
ParseIP(s) ==
    LET dots   == IndexSet(s, Dot)
        colons == IndexSet(s, Colon)
    IN  IF dots = {} /\ colons = {} THEN << >>
        ELSE IF colons = {} \/ (dots # {} /\ Min(dots) < Min(colons)) THEN parseIPv4(s)
        ELSE parseIPv6(s)

----------------------------------------------------------------------------
(* wg_config.go                                                            *)

ZeroWireguardConfig ==
    [PrivateKey |-> << >>, ListenPort |-> 0, Address |-> << >>, DNS |-> << >>,
     MTU |-> 0, Peers |-> << >>]

ZeroAppConfig == [Server |-> ZeroWireguardConfig, Clients |-> << >>]

\* Variant of AddPeer: the new peer is put in front of the list.
AddPeerFront(wc, PublicKey, AllowedIPs) ==
    [wc EXCEPT !.Peers = <<[PublicKey |-> PublicKey,
                            AllowedIPs |-> AllowedIPs,
                            Endpoint |-> << >>,
                            PersistentKeepalive |-> 0]>> \o @]

\* wc.AddPeer(PublicKey, AllowedIPs): wc after the call; the returned
\* pointer is to the last element of wc.Peers.
AddPeer(wc, PublicKey, AllowedIPs) ==
    [wc EXCEPT !.Peers = Append(@, [PublicKey |-> PublicKey,
                                    AllowedIPs |-> AllowedIPs,
                                    Endpoint |-> << >>,
                                    PersistentKeepalive |-> 0])]

NewWireguardServerConfig(PrivateKey, Address, ListenPort) ==
    [ZeroWireguardConfig EXCEPT !.PrivateKey = PrivateKey,
                                !.Address = Address,
                                !.ListenPort = ListenPort]

NewWireguardClientConfig(PrivateKey, Address, PublicKey, AllowedIPs, Endpoint) ==
    LET wc == AddPeer([ZeroWireguardConfig EXCEPT !.PrivateKey = PrivateKey,
                                                  !.Address = Address],
                      PublicKey, AllowedIPs)
    IN  [wc EXCEPT !.Peers[Len(wc.Peers)].Endpoint = Endpoint]

----------------------------------------------------------------------------
(* Text output: net.IP.String, net.IPNet.String and the String methods.    *)

NL == 10
Slash == 47

\* "<nil>"
NilText == <<60, 110, 105, 108, 62>>

HexDigit(v) == IF v < 10 THEN 48 + v ELSE 97 + (v - 10)

\* appendHex: lower-case hexadecimal without leading zeros.
RECURSIVE HexText(_)
HexText(n) ==
    IF n < 16 THEN <<HexDigit(n)>>
    ELSE Append(HexText(n \div 16), HexDigit(n % 16))

\* The eight 16-bit groups of a 16-byte address.
Groups(p) == [k \in 1..8 |-> 256 * p[2 * k - 1] + p[2 * k]]

\* The number of zero groups of g in a row, starting at group i.
RECURSIVE ZeroRun(_, _)
ZeroRun(g, i) == IF i > 8 \/ g[i] # 0 THEN 0 ELSE 1 + ZeroRun(g, i + 1)

\* The groups of g from group i on, "::" standing for the groups e0..e1-1.
RECURSIVE V6Text(_, _, _, _)
V6Text(g, i, e0, e1) ==
    IF i > 8 THEN << >>
    ELSE IF i = e0
         THEN <<Colon, Colon>> \o
              (IF e1 > 8 THEN << >> ELSE HexText(g[e1]) \o V6Text(g, e1 + 1, e0, e1))
    ELSE (IF i > 1 THEN <<Colon>> ELSE << >>) \o HexText(g[i]) \o V6Text(g, i + 1, e0, e1)

\* ip.String()
IPString(ip) ==
    LET p4 == To4(ip)
        g  == Groups(ip)
        longest == Max({ZeroRun(g, i) : i \in 1..8})
        e0 == IF longest < 2 THEN 0
              ELSE Min({i \in 1..8 : ZeroRun(g, i) = longest})
    IN  IF Len(ip) = 0 THEN NilText
        ELSE IF Len(p4) = IPv4len
             THEN Itoa(p4[1]) \o <<Dot>> \o Itoa(p4[2]) \o <<Dot>> \o Itoa(p4[3])
                  \o <<Dot>> \o Itoa(p4[4])
        ELSE V6Text(g, 1, e0, e0 + longest)

\* The number of leading one bits of a byte, -1 when a one follows a zero.
ByteOnes(b) ==
    IF \E n \in 0..8 : b = MaskByte(n)
    THEN CHOOSE n \in 0..8 : b = MaskByte(n)
    ELSE 0 - 1

\* simpleMaskLength(mask): the prefix length, -1 for a mask that is none.
RECURSIVE simpleMaskLength(_)
simpleMaskLength(mask) ==
    IF Len(mask) = 0 THEN 0
    ELSE IF mask[1] = 255
         THEN LET rest == simpleMaskLength(Tail(mask))
              IN  IF rest < 0 THEN rest ELSE 8 + rest
    ELSE IF ByteOnes(mask[1]) < 0 \/ \E i \in 2..Len(mask) : mask[i] # 0 THEN 0 - 1
    ELSE ByteOnes(mask[1])

\* mask.String(): two hexadecimal digits a byte.
RECURSIVE MaskString(_)
MaskString(m) ==
    IF Len(m) = 0 THEN << >>
    ELSE <<HexDigit(m[1] \div 16), HexDigit(m[1] % 16)>> \o MaskString(Tail(m))

\* n.String()
IPNetString(n) ==
    LET nm == networkNumberAndMask(n)
        l  == simpleMaskLength(nm.m)
    IN  IF nm.ip = << >> \/ nm.m = << >> THEN NilText
        ELSE IF l < 0 THEN IPString(nm.ip) \o <<Slash>> \o MaskString(nm.m)
        ELSE IPString(nm.ip) \o <<Slash>> \o Itoa(l)

\* The loops of the String methods: the texts joined by ", ".
RECURSIVE JoinComma(_)
JoinComma(texts) ==
    IF Len(texts) = 0 THEN << >>
    ELSE IF Len(texts) = 1 THEN texts[1]
    ELSE texts[1] \o <<Comma, 32>> \o JoinComma(Tail(texts))

\* "\n[Peer]\nPublicKey = "
FmtPeerPublicKey == <<10, 91, 80, 101, 101, 114, 93, 10, 80, 117, 98, 108, 105, 99, 75, 101, 121, 32, 61, 32>>
\* "\nAllowedIPs = "
FmtAllowedIPs == <<10, 65, 108, 108, 111, 119, 101, 100, 73, 80, 115, 32, 61, 32>>
\* "Endpoint = "
FmtEndpoint == <<69, 110, 100, 112, 111, 105, 110, 116, 32, 61, 32>>
\* "PersistentKeepalive = "
FmtPersistentKeepalive == <<80, 101, 114, 115, 105, 115, 116, 101, 110, 116, 75, 101, 101, 112, 97, 108, 105, 118, 101, 32, 61, 32>>
\* "[Interface]\nPrivateKey = "
FmtInterfacePrivateKey == <<91, 73, 110, 116, 101, 114, 102, 97, 99, 101, 93, 10, 80, 114, 105, 118, 97, 116, 101, 75, 101, 121, 32, 61, 32>>
\* "\nAddress = "
FmtAddress == <<10, 65, 100, 100, 114, 101, 115, 115, 32, 61, 32>>
\* "ListenPort = "
FmtListenPort == <<76, 105, 115, 116, 101, 110, 80, 111, 114, 116, 32, 61, 32>>
\* "DNS = "
FmtDNS == <<68, 78, 83, 32, 61, 32>>
\* "MTU = "
FmtMTU == <<77, 84, 85, 32, 61, 32>>

\* Variant of PeerString: the keepalive line comes before the endpoint line
\* and is written also when the interval is 0.
PeerStringKeepaliveFirst(peer) ==
    LET allowedString == JoinComma([i \in 1..Len(peer.AllowedIPs) |->
                                       IPNetString(peer.AllowedIPs[i])])
    IN  FmtPeerPublicKey \o peer.PublicKey \o FmtAllowedIPs \o allowedString \o <<NL>>
        \o FmtPersistentKeepalive \o Itoa(peer.PersistentKeepalive) \o <<NL>>
        \o (IF peer.Endpoint # << >>
            THEN FmtEndpoint \o peer.Endpoint \o <<NL>> ELSE << >>)

\* peer.String()
PeerString(peer) ==
    LET allowedString == JoinComma([i \in 1..Len(peer.AllowedIPs) |->
                                       IPNetString(peer.AllowedIPs[i])])
    IN  FmtPeerPublicKey \o peer.PublicKey \o FmtAllowedIPs \o allowedString \o <<NL>>
        \o (IF peer.Endpoint # << >>
            THEN FmtEndpoint \o peer.Endpoint \o <<NL>> ELSE << >>)
        \o (IF peer.PersistentKeepalive # 0
            THEN FmtPersistentKeepalive \o Itoa(peer.PersistentKeepalive) \o <<NL>>
            ELSE << >>)

RECURSIVE PeersString(_)
PeersString(peers) ==
    IF Len(peers) = 0 THEN << >>
    ELSE PeerString(peers[1]) \o PeersString(Tail(peers))

\* Variant of ConfigString: only the last peer is written.
ConfigStringLastPeer(wc) ==
    LET addressString == JoinComma([i \in 1..Len(wc.Address) |-> IPNetString(wc.Address[i])])
        dnsString     == JoinComma([i \in 1..Len(wc.DNS) |-> IPString(wc.DNS[i])])
    IN  FmtInterfacePrivateKey \o wc.PrivateKey \o FmtAddress \o addressString \o <<NL>>
        \o (IF wc.ListenPort # 0
            THEN FmtListenPort \o Itoa(wc.ListenPort) \o <<NL>> ELSE << >>)
        \o (IF dnsString # << >> THEN FmtDNS \o dnsString \o <<NL>> ELSE << >>)
        \o (IF wc.MTU # 0 THEN FmtMTU \o Itoa(wc.MTU) \o <<NL>> ELSE << >>)
        \o (IF Len(wc.Peers) = 0 THEN << >> ELSE PeerString(wc.Peers[Len(wc.Peers)]))

\* wc.String()
ConfigString(wc) ==
    LET addressString == JoinComma([i \in 1..Len(wc.Address) |-> IPNetString(wc.Address[i])])
        dnsString     == JoinComma([i \in 1..Len(wc.DNS) |-> IPString(wc.DNS[i])])
    IN  FmtInterfacePrivateKey \o wc.PrivateKey \o FmtAddress \o addressString \o <<NL>>
        \o (IF wc.ListenPort # 0
            THEN FmtListenPort \o Itoa(wc.ListenPort) \o <<NL>> ELSE << >>)
        \o (IF dnsString # << >> THEN FmtDNS \o dnsString \o <<NL>> ELSE << >>)
        \o (IF wc.MTU # 0 THEN FmtMTU \o Itoa(wc.MTU) \o <<NL>> ELSE << >>)
        \o PeersString(wc.Peers)

----------------------------------------------------------------------------
(* app_config.go and user_config.go                                        *)

\* "10.9.0.0/24"
defaultWireguardSubnet == [kind |-> "cidr", addr |-> <<10, 9, 0, 0>>, bits |-> 24]
\* "0.0.0.0/0"
defaultAllowedIps == [kind |-> "cidr", addr |-> <<0, 0, 0, 0>>, bits |-> 0]
\* "8.8.8.8, 1.1.1.1"
defaultDns == <<56, 46, 56, 46, 56, 46, 56, 44, 32, 49, 46, 49, 46, 49, 46, 49>>
defaultMtu == 1420
defaultPersistentKeepalive == 25

clientIpNetToPeer(address) ==
    [i \in 1..Len(address) |-> [IP |-> address[i].IP, Mask |-> CIDRMask(32, 32)]]

\* configureWireguardSubnet(): input is the line read from the console after
\* TrimSpace, kind "empty" for an empty line.
configureWireguardSubnet(input) ==
    IF input.kind = "empty" THEN ParseCIDR(defaultWireguardSubnet)
    ELSE ParseCIDR(input)

\* configureWireguardEndpoint().  env.externalIP is the text of
\* externalIP.String(), env.udp what GetUnusedUdpPort returned, env.endpoint
\* the line read from the console after TrimSpace.
configureWireguardEndpoint(env) ==
    LET auto  == env.externalIP \o <<Colon>> \o Itoa(env.udp.port)
        split == SplitHostPort(env.endpoint)
        conv  == Atoi(split.port)
    IN  IF env.udp.err
        THEN [fatal |-> TRUE, endpoint |-> << >>, serverPort |-> 0]
        ELSE IF env.endpoint # << >> /\ ~split.err /\ ~conv.err
        THEN [fatal |-> FALSE,
              endpoint |-> split.host \o <<Colon>> \o split.port,
              serverPort |-> conv.n]
        ELSE [fatal |-> FALSE, endpoint |-> auto, serverPort |-> env.udp.port]

\* Variant of DnsList: the entries are not trimmed.
RECURSIVE DnsListNoTrim(_)
DnsListNoTrim(dns) ==
    IF Len(dns) = 0 THEN << >>
    ELSE LET ip == ParseIP(dns[1])
         IN  (IF ip # << >> /\ To4(ip) # << >> THEN <<ip>> ELSE << >>)
             \o DnsListNoTrim(Tail(dns))

\* The DNS loop of newConfig.
RECURSIVE DnsList(_)
DnsList(dns) ==
    IF Len(dns) = 0 THEN << >>
    ELSE LET ip == ParseIP(TrimSpace(dns[1]))
         IN  (IF ip # << >> /\ To4(ip) # << >> THEN <<ip>> ELSE << >>)
             \o DnsList(Tail(dns))

NoSubnet == [ip |-> << >>, net |-> [IP |-> << >>, Mask |-> << >>], err |-> FALSE]
NoKeyErr == [Server |-> FALSE, Clients |-> << >>]
NoFiles == [client |-> << >>, server |-> << >>]

\* Variant of newConfig: the listen port is stored before the subnet is read.
newConfigPortFirst(config0, env) ==
    LET ep       == configureWireguardEndpoint(env)
        sn       == configureWireguardSubnet(env.subnet)
        serverIP == NextIP(sn.ip)
        clientIP == NextIP(serverIP)
        serverAddressIpv4Net == [IP |-> serverIP, Mask |-> sn.net.Mask]
        clientAddressIpv4Net == [IP |-> clientIP, Mask |-> sn.net.Mask]
        allowedIPs    == <<ParseCIDR(defaultAllowedIps).net>>
        clientAddress == <<clientAddressIpv4Net>>
        peerIpAddress == clientIpNetToPeer(clientAddress)
        serverAddress == <<serverAddressIpv4Net>>
        server == newWireguardPrivateKey(env.read1)
        client == newWireguardPrivateKey(env.read2)
        serverConfig == AddPeer(NewWireguardServerConfig(base64PrivateKey(server.sk),
                                    serverAddress, Uint16(ep.serverPort)),
                                base64PublicKey(client.sk), peerIpAddress)
        clientConfig0 == NewWireguardClientConfig(base64PrivateKey(client.sk),
                             clientAddress, base64PublicKey(server.sk),
                             allowedIPs, ep.endpoint)
        clientConfig == [clientConfig0 EXCEPT
                             !.DNS = DnsList(Split(defaultDns, Comma)),
                             !.MTU = defaultMtu,
                             !.Peers[1].PersistentKeepalive = defaultPersistentKeepalive]
        stop(o, s) == [outcome |-> o, config |-> config0, subnet |-> s, keyErr |-> NoKeyErr]
    IN  IF ep.fatal THEN stop("fatal", NoSubnet)
        ELSE IF sn.err
             THEN [stop("error", sn) EXCEPT
                      !.config.Server.ListenPort = Uint16(ep.serverPort)]
        ELSE IF IsPanic(serverIP) \/ IsPanic(clientIP) THEN stop("panic", sn)
        ELSE [outcome |-> "ok",
              config  |-> [Server |-> serverConfig, Clients |-> <<clientConfig>>],
              subnet  |-> sn,
              keyErr  |-> [Server |-> server.err, Clients |-> <<client.err>>]]

\* newConfig(config).  outcome is "ok" (returned nil), "error" (returned
\* err), "fatal" (log.Fatalf) or "panic"; config is *config afterwards.
newConfig(config0, env) ==
    LET ep       == configureWireguardEndpoint(env)
        sn       == configureWireguardSubnet(env.subnet)
        serverIP == NextIP(sn.ip)
        clientIP == NextIP(serverIP)
        serverAddressIpv4Net == [IP |-> serverIP, Mask |-> sn.net.Mask]
        clientAddressIpv4Net == [IP |-> clientIP, Mask |-> sn.net.Mask]
        allowedIPs    == <<ParseCIDR(defaultAllowedIps).net>>
        clientAddress == <<clientAddressIpv4Net>>
        peerIpAddress == clientIpNetToPeer(clientAddress)
        serverAddress == <<serverAddressIpv4Net>>
        server == newWireguardPrivateKey(env.read1)
        client == newWireguardPrivateKey(env.read2)
        serverConfig == AddPeer(NewWireguardServerConfig(base64PrivateKey(server.sk),
                                    serverAddress, Uint16(ep.serverPort)),
                                base64PublicKey(client.sk), peerIpAddress)
        clientConfig0 == NewWireguardClientConfig(base64PrivateKey(client.sk),
                             clientAddress, base64PublicKey(server.sk),
                             allowedIPs, ep.endpoint)
        clientConfig == [clientConfig0 EXCEPT
                             !.DNS = DnsList(Split(defaultDns, Comma)),
                             !.MTU = defaultMtu,
                             !.Peers[1].PersistentKeepalive = defaultPersistentKeepalive]
        stop(o, s) == [outcome |-> o, config |-> config0, subnet |-> s, keyErr |-> NoKeyErr]
    IN  IF ep.fatal THEN stop("fatal", NoSubnet)
        ELSE IF sn.err THEN stop("error", sn)
        ELSE IF IsPanic(serverIP) \/ IsPanic(clientIP) THEN stop("panic", sn)
        ELSE [outcome |-> "ok",
              config  |-> [Server |-> serverConfig, Clients |-> <<clientConfig>>],
              subnet  |-> sn,
              keyErr  |-> [Server |-> server.err, Clients |-> <<client.err>>]]

\* Variant of addClient: the new client keeps the private key of the client
\* it was copied from.
addClientKeepsKey(config0, read) ==
    LET last   == config0.Clients[Len(config0.Clients)]
        client == newWireguardPrivateKey(read)
        ip     == NextIP(last.Address[1].IP)
        clientIpNet == [IP |-> ip, Mask |-> last.Address[1].Mask]
        succ   == NextIP(clientIpNet.IP)
        clientConfig1 == [last EXCEPT !.Address = <<clientIpNet>>]
        peerIpAddress == clientIpNetToPeer(clientConfig1.Address)
        server2 == AddPeer(config0.Server, base64PublicKey(client.sk), peerIpAddress)
        stop(o) == [outcome |-> o, config |-> config0, err |-> client.err]
    IN  IF IsPanic(ip) THEN stop("panic")
        ELSE IF ~Contains(last.Address[1], clientIpNet.IP) THEN stop("fatal")
        ELSE IF IsPanic(succ) THEN stop("panic")
        ELSE IF ~Contains(last.Address[1], succ) THEN stop("fatal")
        ELSE [outcome |-> "ok",
              config  |-> [Server |-> server2,
                           Clients |-> Append(config0.Clients, clientConfig1)],
              err     |-> client.err]

\* Variant of addClient: the peer is added to the server before the subnet
\* check.
addClientPeerFirst(config0, read) ==
    LET last   == config0.Clients[Len(config0.Clients)]
        client == newWireguardPrivateKey(read)
        ip     == NextIP(last.Address[1].IP)
        clientIpNet == [IP |-> ip, Mask |-> last.Address[1].Mask]
        succ   == NextIP(clientIpNet.IP)
        clientConfig1 == [last EXCEPT !.Address = <<clientIpNet>>]
        peerIpAddress == clientIpNetToPeer(clientConfig1.Address)
        server2 == AddPeer(config0.Server, base64PublicKey(client.sk), peerIpAddress)
        clientConfig2 == [clientConfig1 EXCEPT !.PrivateKey = base64PrivateKey(client.sk)]
        stop(o) == [outcome |-> o, config |-> config0, err |-> client.err]
        late(o) == [outcome |-> o, config |-> [config0 EXCEPT !.Server = server2],
                    err |-> client.err]
    IN  IF IsPanic(ip) THEN stop("panic")
        ELSE IF ~Contains(last.Address[1], clientIpNet.IP) THEN late("fatal")
        ELSE IF IsPanic(succ) THEN late("panic")
        ELSE IF ~Contains(last.Address[1], succ) THEN late("fatal")
        ELSE [outcome |-> "ok",
              config  |-> [Server |-> server2,
                           Clients |-> Append(config0.Clients, clientConfig2)],
              err     |-> client.err]

\* config.addClient().  outcome is "ok", "fatal" (log.Fatalf) or "panic".
addClient(config0, read) ==
    LET last   == config0.Clients[Len(config0.Clients)]
        client == newWireguardPrivateKey(read)
        ip     == NextIP(last.Address[1].IP)
        clientIpNet == [IP |-> ip, Mask |-> last.Address[1].Mask]
        inside == Contains(last.Address[1], clientIpNet.IP)
        succ   == NextIP(clientIpNet.IP)
        clientConfig1 == [last EXCEPT !.Address = <<clientIpNet>>]
        peerIpAddress == clientIpNetToPeer(clientConfig1.Address)
        server2 == AddPeer(config0.Server, base64PublicKey(client.sk), peerIpAddress)
        clientConfig2 == [clientConfig1 EXCEPT !.PrivateKey = base64PrivateKey(client.sk)]
        stop(o) == [outcome |-> o, config |-> config0, err |-> client.err]
    IN  IF IsPanic(ip) THEN stop("panic")
        ELSE IF ~inside THEN stop("fatal")
        ELSE IF IsPanic(succ) THEN stop("panic")
        ELSE IF ~Contains(last.Address[1], succ) THEN stop("fatal")
        ELSE [outcome |-> "ok",
              config  |-> [Server |-> server2,
                           Clients |-> Append(config0.Clients, clientConfig2)],
              err     |-> client.err]

----------------------------------------------------------------------------
(* What the environment can supply.                                        *)

\* A 32-byte array with first byte b0, last byte b31 and mid elsewhere.
Raw(b0, mid, b31) ==
    [i \in 1..WireguardPrivateKeySize |->
        IF i = 1 THEN b0 ELSE IF i = WireguardPrivateKeySize THEN b31 ELSE mid]

\* rand.Read(sk[:]): the array is filled and err is nil, or the read fails
\* and the array is left as it was (all zero) with err set.
RandReads ==
    {[bytes |-> Raw(255, 171, 255), err |-> FALSE],
     [bytes |-> Raw(7, 1, 128), err |-> FALSE],
     [bytes |-> Zeros(WireguardPrivateKeySize), err |-> TRUE]}

Ones16 == [i \in 1..IPv6len |-> 255]

Cidr(addr, bits) == [kind |-> "cidr", addr |-> addr, bits |-> bits]

\* Lines the user can type at the subnet prompt.
SubnetInputs ==
    {[kind |-> "empty", addr |-> << >>, bits |-> 0],
     [kind |-> "malformed", addr |-> << >>, bits |-> 0],
     Cidr(<<10, 9, 0, 0>>, 33),
     Cidr(<<10, 9, 0, 0>>, 29),
     Cidr(<<10, 9, 0, 0>>, 30),
     Cidr(<<10, 9, 0, 0>>, 31),
     Cidr(<<10, 9, 0, 0>>, 32),
     Cidr(<<10, 9, 0, 5>>, 24),
     Cidr(<<10, 9, 0, 250>>, 24),
     Cidr(<<10, 9, 0, 255>>, 24),
     Cidr(<<255, 255, 255, 253>>, 0),
     Cidr([i \in 1..IPv6len |-> IF i = 1 THEN 253 ELSE 0], 64),
     Cidr([Ones16 EXCEPT ![16] = 252], 126),
     Cidr([Ones16 EXCEPT ![16] = 253], 0),
     Cidr(Ones16, 128)}

\* "1.2.3.4"
ExternalIPs == {<<49, 46, 50, 46, 51, 46, 52>>}

\* GetUnusedUdpPort()
UdpResults == {[port |-> 51820, err |-> FALSE], [port |-> 0, err |-> TRUE]}

\* Lines the user can type at the endpoint prompt: "", "h:443", "h:70000",
\* "h" and "h:x".
EndpointInputs ==
    {<< >>,
     <<104, 58, 52, 52, 51>>,
     <<104, 58, 55, 48, 48, 48, 48>>,
     <<104>>,
     <<104, 58, 120>>}

Envs ==
    [externalIP : ExternalIPs, udp : UdpResults, endpoint : EndpointInputs,
     subnet : SubnetInputs, read1 : RandReads, read2 : RandReads]

ByteSamples == {0, 1, 254, 255}

\* Addresses handed to NextIP: every width up to MaxWidth over ByteSamples,
\* the 16-byte forms of the IPv4 ones, and the top of the 16-byte range.
NextIPInputs ==
    UNION {[1..w -> ByteSamples] : w \in 1..MaxWidth}
    \cup {v4InV6Prefix \o t : t \in [1..IPv4len -> ByteSamples]}
    \cup {[Ones16 EXCEPT ![16] = b] : b \in ByteSamples}

----------------------------------------------------------------------------
(* The program.                                                            *)

Init ==
    /\ state = "start"
    /\ config = ZeroAppConfig
    /\ subnet = NoSubnet
    /\ keyErr = NoKeyErr
    /\ chain = << >>
    /\ nstate = "idle"
    /\ written = NoFiles
    /\ arg = << >>
    /\ ret = << >>
    /\ fstate = "idle"

NewConfigCall ==
    /\ state = "start"
    /\ \E env \in Envs :
          LET r == newConfig(config, env)
          IN  /\ state' = (IF r.outcome = "ok" THEN "provisioned" ELSE r.outcome)
              /\ config' = r.config
              /\ subnet' = r.subnet
              /\ keyErr' = r.keyErr
    /\ UNCHANGED <<chain, nstate, written, arg, ret, fstate>>

AddClientCall ==
    /\ state = "provisioned"
    /\ Len(config.Clients) < MaxClients
    /\ \E read \in RandReads :
          LET r == addClient(config, read)
          IN  /\ state' = (IF r.outcome = "ok" THEN "provisioned" ELSE r.outcome)
              /\ config' = r.config
              /\ keyErr' = (IF r.outcome = "ok"
                            THEN [keyErr EXCEPT !.Clients = Append(@, r.err)]
                            ELSE keyErr)
    /\ UNCHANGED <<subnet, chain, nstate, written, arg, ret, fstate>>

Next == NewConfigCall \/ AddClientCall

Spec == Init /\ [][Next]_vars

(* The same with the step that writes the configuration files.             *)

\* ioutil.WriteFile of the client file and of the server file: nil or error.
WriteResults == {[client |-> c, server |-> v] : c \in BOOLEAN, v \in BOOLEAN}

\* config.updateWireguardConfigFiles(configPath).  w says which of the two
\* writes fail.
updateWireguardConfigFiles(config0, written0, w) ==
    LET client == ConfigString(config0.Clients[Len(config0.Clients)])
        server == ConfigString(config0.Server)
    IN  IF w.client THEN [outcome |-> "fatal", written |-> written0]
        ELSE IF w.server
             THEN [outcome |-> "fatal", written |-> [written0 EXCEPT !.client = client]]
        ELSE [outcome |-> "ok", written |-> [client |-> client, server |-> server]]

UpdateWireguardConfigFilesCall ==
    /\ state = "provisioned"
    /\ \E w \in WriteResults :
          LET r == updateWireguardConfigFiles(config, written, w)
          IN  /\ state' = (IF r.outcome = "ok" THEN "provisioned" ELSE r.outcome)
              /\ written' = r.written
    /\ UNCHANGED <<config, subnet, keyErr, chain, nstate, arg, ret, fstate>>

NextFiles == NewConfigCall \/ AddClientCall \/ UpdateWireguardConfigFilesCall

SpecFiles == Init /\ [][NextFiles]_vars

(* NextIP on its own: a chain ip, NextIP(ip), NextIP(NextIP(ip)), ...      *)

InitNextIP ==
    /\ state = "start"
    /\ config = ZeroAppConfig
    /\ subnet = NoSubnet
    /\ keyErr = NoKeyErr
    /\ \E ip \in NextIPInputs : chain = <<ip>>
    /\ nstate = "run"
    /\ written = NoFiles
    /\ arg = << >>
    /\ ret = << >>
    /\ fstate = "idle"

NextIPCall ==
    /\ nstate = "run"
    /\ Len(chain) < ChainLen
    /\ LET r == NextIP(chain[Len(chain)])
       IN  IF IsPanic(r)
           THEN nstate' = "panicked" /\ chain' = chain
           ELSE nstate' = "run" /\ chain' = Append(chain, r)
    /\ UNCHANGED <<state, config, subnet, keyErr, written, arg, ret, fstate>>

NextNextIP == NextIPCall

SpecNextIP == InitNextIP /\ [][NextNextIP]_vars

(* The String methods on their own.                                        *)

\* The sequences over S of length 0..n.
RECURSIVE SeqsUpTo(_, _)
SeqsUpTo(S, n) ==
    IF n = 0 THEN {<< >>}
    ELSE LET shorter == SeqsUpTo(S, n - 1)
         IN  shorter \cup {Append(q, x) : q \in {t \in shorter : Len(t) = n - 1}, x \in S}

PeerSamples ==
    {[PublicKey |-> <<80>>,
      AllowedIPs |-> <<[IP |-> <<10, 9, 0, 2>>, Mask |-> CIDRMask(32, 32)]>>,
      Endpoint |-> e, PersistentKeepalive |-> k] :
        e \in {<< >>, <<104, 58, 52, 52, 51>>}, k \in {0, defaultPersistentKeepalive}}

StringInputs ==
    {[PrivateKey |-> <<83>>,
      ListenPort |-> port,
      Address |-> <<[IP |-> <<10, 9, 0, 1>>, Mask |-> CIDRMask(24, 32)]>>,
      DNS |-> dns, MTU |-> mtu, Peers |-> peers] :
        port \in {0, 51820},
        dns \in {<< >>, << << >> >>, <<IPv4(8, 8, 8, 8)>>,
                 <<IPv4(8, 8, 8, 8), IPv4(1, 1, 1, 1)>>},
        mtu \in {0, defaultMtu},
        peers \in SeqsUpTo(PeerSamples, MaxPeers)}

InitString ==
    /\ state = "start"
    /\ config = ZeroAppConfig
    /\ subnet = NoSubnet
    /\ keyErr = NoKeyErr
    /\ chain = << >>
    /\ nstate = "idle"
    /\ written = NoFiles
    /\ arg \in StringInputs
    /\ ret = << >>
    /\ fstate = "ready"

ConfigStringCall ==
    /\ fstate = "ready"
    /\ ret' = ConfigString(arg)
    /\ fstate' = "done"
    /\ UNCHANGED <<state, config, subnet, keyErr, chain, nstate, written, arg>>

NextString == ConfigStringCall

SpecString == InitString /\ [][NextString]_vars

(* The DNS loop of newConfig on its own, for any DNS text.                 *)

\* Entries of a DNS text: "8.8.8.8", " 1.1.1.1", "not-an-ip", "256.1.1.1", " 9.9.9.9 ", "", "::1", " ::ffff:1.2.3.4", "2001:db8::1".
DnsEntries ==
    {<<56, 46, 56, 46, 56, 46, 56>>,
     <<32, 49, 46, 49, 46, 49, 46, 49>>,
     <<110, 111, 116, 45, 97, 110, 45, 105, 112>>,
     <<50, 53, 54, 46, 49, 46, 49, 46, 49>>,
     <<32, 57, 46, 57, 46, 57, 46, 57, 32>>,
     << >>,
     <<58, 58, 49>>,
     <<32, 58, 58, 102, 102, 102, 102, 58, 49, 46, 50, 46, 51, 46, 52>>,
     <<50, 48, 48, 49, 58, 100, 98, 56, 58, 58, 49>>}

RECURSIVE JoinWith(_, _)
JoinWith(texts, sep) ==
    IF Len(texts) = 1 THEN texts[1]
    ELSE texts[1] \o <<sep>> \o JoinWith(Tail(texts), sep)

DnsInputs == {JoinWith(q, Comma) : q \in SeqsUpTo(DnsEntries, MaxEntries) \ {<< >>}}

InitDns ==
    /\ state = "start"
    /\ config = ZeroAppConfig
    /\ subnet = NoSubnet
    /\ keyErr = NoKeyErr
    /\ chain = << >>
    /\ nstate = "idle"
    /\ written = NoFiles
    /\ arg \in DnsInputs
    /\ ret = << >>
    /\ fstate = "ready"

DnsListCall ==
    /\ fstate = "ready"
    /\ ret' = DnsList(Split(arg, Comma))
    /\ fstate' = "done"
    /\ UNCHANGED <<state, config, subnet, keyErr, chain, nstate, written, arg>>

NextDns == DnsListCall

SpecDns == InitDns /\ [][NextDns]_vars

(* clientIpNetToPeer on its own.                                           *)

\* Interface addresses as newConfig and addClient build them: the address
\* in the 16 bytes of net.ParseCIDR and NextIP, the mask of the subnet; and
\* the same IPv4 addresses in 4 bytes.
BlockSamples ==
    {[IP |-> IPv4(10, 9, 0, 2), Mask |-> CIDRMask(24, 32)],
     [IP |-> IPv4(10, 9, 0, 3), Mask |-> CIDRMask(24, 32)],
     [IP |-> IPv4(192, 168, 1, 255), Mask |-> CIDRMask(16, 32)],
     [IP |-> IPv4(255, 255, 255, 254), Mask |-> CIDRMask(0, 32)],
     [IP |-> <<10, 9, 0, 2>>, Mask |-> CIDRMask(24, 32)],
     [IP |-> <<172, 16, 0, 9>>, Mask |-> CIDRMask(30, 32)],
     [IP |-> [i \in 1..IPv6len |-> IF i = 1 THEN 253 ELSE IF i = IPv6len THEN 2 ELSE 0],
      Mask |-> CIDRMask(64, 128)],
     [IP |-> [i \in 1..IPv6len |-> IF i = IPv6len THEN 254 ELSE 255],
      Mask |-> CIDRMask(126, 128)]}

PeerAddrInputs == SeqsUpTo(BlockSamples, MaxBlocks)

InitPeerAddr ==
    /\ state = "start"
    /\ config = ZeroAppConfig
    /\ subnet = NoSubnet
    /\ keyErr = NoKeyErr
    /\ chain = << >>
    /\ nstate = "idle"
    /\ written = NoFiles
    /\ arg \in PeerAddrInputs
    /\ ret = << >>
    /\ fstate = "ready"

ClientIpNetToPeerCall ==
    /\ fstate = "ready"
    /\ ret' = clientIpNetToPeer(arg)
    /\ fstate' = "done"
    /\ UNCHANGED <<state, config, subnet, keyErr, chain, nstate, written, arg>>

NextPeerAddr == ClientIpNetToPeerCall

SpecPeerAddr == InitPeerAddr /\ [][NextPeerAddr]_vars

(* newWireguardPrivateKey on its own, for any bytes read.                  *)

\* What rand.Read can do: every value of the first byte and every value of
\* the last byte with three fillings of the bytes between, or a failed read.
KeyReads ==
    {[bytes |-> Raw(b, mid, 255 - b), err |-> FALSE] : b \in 0..255, mid \in {0, 171, 255}}
    \cup {[bytes |-> Zeros(WireguardPrivateKeySize), err |-> TRUE]}

InitKey ==
    /\ state = "start"
    /\ config = ZeroAppConfig
    /\ subnet = NoSubnet
    /\ keyErr = NoKeyErr
    /\ chain = << >>
    /\ nstate = "idle"
    /\ written = NoFiles
    /\ arg \in KeyReads
    /\ ret = << >>
    /\ fstate = "ready"

NewWireguardPrivateKeyCall ==
    /\ fstate = "ready"
    /\ ret' = newWireguardPrivateKey(arg)
    /\ fstate' = "done"
    /\ UNCHANGED <<state, config, subnet, keyErr, chain, nstate, written, arg>>

NextKey == NewWireguardPrivateKeyCall

SpecKey == InitKey /\ [][NextKey]_vars

----------------------------------------------------------------------------
(* Notions the properties are stated in.                                   *)

\* The digit an alphabet character stands for.
decodeStd(c) == CHOOSE v \in 0..63 : encodeStd(v) = c

\* base64.StdEncoding.DecodeString(s) of a well-formed text.
RECURSIVE DecodeString(_)
DecodeString(s) ==
    IF Len(s) < 4 THEN << >>
    ELSE LET a == decodeStd(s[1])
             b == decodeStd(s[2])
         IN  IF s[3] = PadChar THEN <<a * 4 + b \div 16>>
             ELSE IF s[4] = PadChar
                  THEN <<a * 4 + b \div 16, (b % 16) * 16 + decodeStd(s[3]) \div 4>>
             ELSE <<a * 4 + b \div 16,
                    (b % 16) * 16 + decodeStd(s[3]) \div 4,
                    (decodeStd(s[3]) % 4) * 64 + decodeStd(s[4])>>
                  \o DecodeString(SubSeq(s, 5, Len(s)))

\* The public key text that belongs to a private key text.
PublicOf(privateKeyText) == EncodeToString(publicKey(DecodeString(privateKeyText)))

\* b is a + 1, both read as unsigned big-endian integers of one width.
IsSuccessor(a, b) ==
    /\ Len(a) = Len(b)
    /\ \E j \in 1..Len(a) :
          /\ \A i \in 1..(j - 1) : b[i] = a[i]
          /\ b[j] = a[j] + 1
          /\ \A i \in (j + 1)..Len(a) : a[i] = 255 /\ b[i] = 0

\* a < b, both read as unsigned big-endian integers of one width.
Less(a, b) ==
    /\ Len(a) = Len(b)
    /\ \E j \in 1..Len(a) :
          /\ \A i \in 1..(j - 1) : b[i] = a[i]
          /\ a[j] < b[j]

\* The unsigned big-endian integer a short byte sequence stands for.
RECURSIVE Value(_)
Value(b) ==
    IF Len(b) = 0 THEN 0
    ELSE 256 * Value(SubSeq(b, 1, Len(b) - 1)) + b[Len(b)]

\* a + 1 modulo 256^Len(a): the successor that wraps at the top.
RECURSIVE WrapNext(_)
WrapNext(a) ==
    IF Len(a) = 0 THEN << >>
    ELSE IF a[Len(a)] < 255 THEN [a EXCEPT ![Len(a)] = @ + 1]
    ELSE Append(WrapNext(SubSeq(a, 1, Len(a) - 1)), 0)

\* The mask under which a block is the single address ip.
HostMask(ip) ==
    IF To4(ip) # << >> THEN [i \in 1..IPv4len |-> 255]
    ELSE [i \in 1..IPv6len |-> 255]

Provisioned == state = "provisioned"

----------------------------------------------------------------------------
(* Properties.                                                             *)

\* C1: after newConfig and any number of successful addClient calls the
\* client list and the server's peer list have the same length, the server's
\* i-th peer carries the public key of client i's private key, and client i
\* has exactly one peer, which carries the public key of the server's
\* private key.
C1_KeysPaired ==
    Provisioned =>
        /\ Len(config.Clients) = Len(config.Server.Peers)
        /\ \A i \in 1..Len(config.Clients) :
              /\ i \in 1..Len(config.Server.Peers)
              /\ config.Server.Peers[i].PublicKey = PublicOf(config.Clients[i].PrivateKey)
              /\ Len(config.Clients[i].Peers) = 1
              /\ config.Clients[i].Peers[1].PublicKey = PublicOf(config.Server.PrivateKey)

C1_Witness ==
    /\ Provisioned
    /\ Len(config.Clients) >= 3
    /\ config.Clients[3].PrivateKey # config.Clients[2].PrivateKey

\* The one address of client i's interface.
ClientAddr(i) == config.Clients[i].Address[1]

\* C2: after newConfig and any number of successful addClient calls, each
\* client's interface address under the host mask is the allowed-IP entry of
\* exactly one server peer, the one at the client's index, and no two clients
\* have the same interface address.
C2_HostMaskedPeers ==
    Provisioned =>
        /\ \A i \in 1..Len(config.Clients) :
              {j \in 1..Len(config.Server.Peers) :
                  config.Server.Peers[j].AllowedIPs =
                      <<[IP |-> ClientAddr(i).IP, Mask |-> HostMask(ClientAddr(i).IP)]>>}
              = {i}
        /\ \A i, j \in 1..Len(config.Clients) :
              i # j => ClientAddr(i).IP # ClientAddr(j).IP

\* C3: every address the program allocates, the server's and every client's,
\* lies within the configured subnet.
C3_WithinSubnet ==
    Provisioned =>
        /\ Contains(subnet.net, config.Server.Address[1].IP)
        /\ \A i \in 1..Len(config.Clients) : Contains(subnet.net, ClientAddr(i).IP)

\* The candidate address or its successor is outside the subnet of the last
\* client's address and mask.
Exhausted(cfg) ==
    LET last == cfg.Clients[Len(cfg.Clients)].Address[1]
        cand == WrapNext(last.IP)
    IN  ~Contains(last, cand) \/ ~Contains(last, WrapNext(cand))

\* C4: addClient halts with the fatal exhaustion condition exactly when the
\* candidate address or the candidate's successor is not inside the subnet
\* of the last client's address and mask.
C4_FatalIffExhausted ==
    [][Provisioned => ((state' = "fatal") <=> Exhausted(config))]_vars

\* C5: a failed addClient leaves the server's peer list and the client list
\* exactly as they were before the call, one peer per client.
C5_AllOrNothing ==
    [][(Provisioned /\ state' # "provisioned") =>
          /\ config' = config
          /\ Len(config'.Server.Peers) = Len(config'.Clients)]_vars

C5_Witness ==
    /\ state = "fatal"
    /\ Len(config.Clients) >= 2
    /\ Len(config.Server.Peers) = Len(config.Clients)

\* C6: no key that newWireguardPrivateKey returned together with an error of
\* the random source is stored in appConfig.
C6_NoFailedKeyStored ==
    Provisioned =>
        /\ ~keyErr.Server
        /\ \A i \in 1..Len(keyErr.Clients) : ~keyErr.Clients[i]

\* C7: newConfig gives the server the subnet's network address plus one and
\* the first client the server's address plus one, both with the subnet's
\* mask, and the first client's address with a /32 mask is the only
\* allowed-IP of the server's first peer.
C7_InitialAllocation ==
    Provisioned =>
        /\ config.Server.Address =
               <<[IP |-> WrapNext(To16(subnet.net.IP)), Mask |-> subnet.net.Mask]>>
        /\ config.Clients[1].Address =
               <<[IP |-> WrapNext(config.Server.Address[1].IP), Mask |-> subnet.net.Mask]>>
        /\ config.Server.Peers[1].AllowedIPs =
               <<[IP |-> ClientAddr(1).IP, Mask |-> <<255, 255, 255, 255>>]>>

\* C8: after k successful addClient calls the clients have the addresses
\* A, A+1, ..., A+k in list order, all with the first client's mask, and the
\* server's peers have the same addresses as /32 allowed-IPs in the same
\* order.
C8_SequentialAddresses ==
    Provisioned =>
        /\ Len(config.Server.Peers) = Len(config.Clients)
        /\ \A i \in 1..Len(config.Clients) :
              /\ Len(config.Clients[i].Address) = 1
              /\ i > 1 => /\ IsSuccessor(ClientAddr(i - 1).IP, ClientAddr(i).IP)
                          /\ ClientAddr(i).Mask = ClientAddr(1).Mask
              /\ i \in 1..Len(config.Server.Peers)
              /\ config.Server.Peers[i].AllowedIPs =
                     <<[IP |-> ClientAddr(i).IP, Mask |-> <<255, 255, 255, 255>>]>>

C8_Witness ==
    /\ Provisioned
    /\ Len(config.Clients) = 4
    /\ ClientAddr(1).IP = IPv4(10, 9, 0, 2)
    /\ ClientAddr(4).IP = IPv4(10, 9, 0, 5)
    /\ config.Server.Peers[4].AllowedIPs[1].IP = IPv4(10, 9, 0, 5)

\* C9: NextIP of an all-ones address completes normally and returns the
\* all-zero address of the same width.
C9_AllOnesWraps ==
    \A i \in 1..Len(chain) :
        AllFF(chain[i]) =>
            /\ nstate # "panicked"
            /\ i < Len(chain) => chain[i + 1] = Zeros(Len(chain[i]))

\* C10: for an address that is not all-ones NextIP returns an address of the
\* same length whose big-endian value is one more, so the addresses of a
\* chain are distinct and strictly increasing.
C10_PlusOne ==
    /\ \A i \in 1..Len(chain) :
          ~AllFF(chain[i]) =>
              /\ i = Len(chain) => nstate # "panicked"
              /\ i < Len(chain) =>
                    /\ Len(chain[i + 1]) = Len(chain[i])
                    /\ IsSuccessor(chain[i], chain[i + 1])
                    /\ Len(chain[i]) <= 3 => Value(chain[i + 1]) = Value(chain[i]) + 1
    /\ \A i, j \in 1..Len(chain) : i < j => Less(chain[i], chain[j])

C10_Witness ==
    /\ Len(chain) = 3
    /\ Len(chain[1]) >= 2
    /\ chain[1][1] = 0
    /\ chain[1][Len(chain[1])] = 255
    /\ chain[2][Len(chain[2])] = 0


----------------------------------------------------------------------------
(* Rendering.                                                              *)

\* The text of a line before its first space.
FirstWord(line) ==
    LET at == IndexSet(line, 32)
    IN  IF at = {} THEN line ELSE SubSeq(line, 1, Min(at) - 1)

\* The first words of the lines of a text.
LineWords(text) ==
    LET lines == Split(text, NL)
    IN  [i \in 1..Len(lines) |-> FirstWord(lines[i])]

WordInterface == <<91, 73, 110, 116, 101, 114, 102, 97, 99, 101, 93>>
WordPeer == <<91, 80, 101, 101, 114, 93>>
WordPrivateKey == <<80, 114, 105, 118, 97, 116, 101, 75, 101, 121>>
WordAddress == <<65, 100, 100, 114, 101, 115, 115>>
WordListenPort == <<76, 105, 115, 116, 101, 110, 80, 111, 114, 116>>
WordDNS == <<68, 78, 83>>
WordMTU == <<77, 84, 85>>
WordPublicKey == <<80, 117, 98, 108, 105, 99, 75, 101, 121>>
WordAllowedIPs == <<65, 108, 108, 111, 119, 101, 100, 73, 80, 115>>
WordEndpoint == <<69, 110, 100, 112, 111, 105, 110, 116>>
WordPersistentKeepalive == <<80, 101, 114, 115, 105, 115, 116, 101, 110, 116, 75, 101, 101, 112, 97, 108, 105, 118, 101>>

\* The lines a peer block is to have: an empty line, the header, the two
\* lines always there, then the optional lines in their order.
PeerWords(peer) ==
    << << >>, WordPeer, WordPublicKey, WordAllowedIPs>>
    \o (IF peer.Endpoint # << >> THEN <<WordEndpoint>> ELSE << >>)
    \o (IF peer.PersistentKeepalive # 0 THEN <<WordPersistentKeepalive>> ELSE << >>)

RECURSIVE PeersWords(_)
PeersWords(peers) ==
    IF Len(peers) = 0 THEN << >>
    ELSE PeerWords(peers[1]) \o PeersWords(Tail(peers))

\* The lines an interface block is to have.
InterfaceWords(wc) ==
    <<WordInterface, WordPrivateKey, WordAddress>>
    \o (IF wc.ListenPort # 0 THEN <<WordListenPort>> ELSE << >>)
    \o (IF Len(wc.DNS) # 0 THEN <<WordDNS>> ELSE << >>)
    \o (IF wc.MTU # 0 THEN <<WordMTU>> ELSE << >>)

\* C11: the text of a configuration has a ListenPort line exactly when the
\* port is not 0, a DNS line exactly when the DNS list is not empty and an
\* MTU line exactly when the MTU is not 0; each peer block has an Endpoint
\* line exactly when the endpoint is not empty and a PersistentKeepalive line
\* exactly when the interval is not 0; the lines come in the order PrivateKey,
\* Address, ListenPort, DNS, MTU and PublicKey, AllowedIPs, Endpoint,
\* PersistentKeepalive.  (The text ends with a newline, hence the last,
\* empty line.)
C11_OptionalLines ==
    fstate = "done" =>
        LineWords(ret) = InterfaceWords(arg) \o PeersWords(arg.Peers) \o << << >> >>

C11_Witness ==
    /\ fstate = "done"
    /\ arg.ListenPort = 0
    /\ arg.DNS # << >>
    /\ arg.MTU # 0
    /\ Len(arg.Peers) = 2
    /\ arg.Peers[1].Endpoint = << >> /\ arg.Peers[1].PersistentKeepalive # 0
    /\ arg.Peers[2].Endpoint # << >> /\ arg.Peers[2].PersistentKeepalive = 0
    /\ LineWords(ret) =
          <<WordInterface, WordPrivateKey, WordAddress, WordDNS, WordMTU,
            << >>, WordPeer, WordPublicKey, WordAllowedIPs, WordPersistentKeepalive,
            << >>, WordPeer, WordPublicKey, WordAllowedIPs, WordEndpoint, << >> >>


\* The places of the lines of a text that are the line word.
LinesAt(lines, word) == {i \in 1..Len(lines) : lines[i] = word}

\* The j-th smallest element of a set of numbers.
Nth(S, j) == CHOOSE x \in S : Cardinality({y \in S : y <= x}) = j

\* The lines of the j-th [Peer] block of a text: from its header up to the
\* empty line before the next header, or up to the end of the text.
PeerBlock(lines, j) ==
    LET at == LinesAt(lines, WordPeer)
        to == IF j < Cardinality(at) THEN Nth(at, j + 1) - 2 ELSE Len(lines) - 1
    IN  SubSeq(lines, Nth(at, j), to)

\* The lines of the text of one peer, from the header on.
PeerLines(peer) ==
    LET lines == Split(PeerString(peer), NL)
    IN  SubSeq(lines, 2, Len(lines) - 1)

\* text is one [Interface] block followed by one [Peer] block for each of
\* the peers, in their order.
OneInterfaceThenPeers(text, peers) ==
    LET lines == Split(text, NL)
    IN  /\ LinesAt(lines, WordInterface) = {1}
        /\ Cardinality(LinesAt(lines, WordPeer)) = Len(peers)
        /\ \A j \in 1..Len(peers) : PeerBlock(lines, j) = PeerLines(peers[j])

\* C12: whenever the server file is written, after newConfig and any number
\* of addClient calls that returned, its text is exactly one [Interface]
\* block followed by exactly one [Peer] block for each provisioned client,
\* the j-th block being the text of the j-th peer.
C12_ServerFileBlocks ==
    [][written'.server # written.server
          => /\ Len(config.Server.Peers) = Len(config.Clients)
             /\ OneInterfaceThenPeers(written'.server, config.Server.Peers)]_vars

C12_Witness ==
    /\ state = "provisioned"
    /\ Len(config.Clients) = 3
    /\ written.server = ConfigString(config.Server)
    /\ Cardinality(LinesAt(Split(written.server, NL), WordPeer)) = 3
    /\ written.client = ConfigString(config.Clients[3])


----------------------------------------------------------------------------
(* The DNS list.                                                           *)

\* The entry, trimmed, is the text of an IPv4 address.
ParsesAsIPv4(entry) == To4(ParseIP(TrimSpace(entry))) # << >>

\* "8.8.8.8, 1.1.1.1"
DnsBoth == <<56, 46, 56, 46, 56, 46, 56, 44, 32, 49, 46, 49, 46, 49, 46, 49>>
\* "not-an-ip, 1.1.1.1"
DnsOneBad == <<110, 111, 116, 45, 97, 110, 45, 105, 112, 44, 32, 49, 46, 49, 46, 49, 46, 49>>

\* C13: the DNS list built from a DNS text is the entries between the commas
\* that, trimmed, parse as IPv4 addresses, in their order, the others being
\* dropped; "8.8.8.8, 1.1.1.1" gives both servers and "not-an-ip, 1.1.1.1"
\* gives 1.1.1.1 alone.
C13_DnsSubsequence ==
    fstate = "done" =>
        LET kept == SelectSeq(Split(arg, Comma), ParsesAsIPv4)
        IN  /\ ret = [i \in 1..Len(kept) |-> ParseIP(TrimSpace(kept[i]))]
            /\ \A i \in 1..Len(ret) : To4(ret[i]) # << >>
            /\ arg = DnsBoth => ret = <<IPv4(8, 8, 8, 8), IPv4(1, 1, 1, 1)>>
            /\ arg = DnsOneBad => ret = <<IPv4(1, 1, 1, 1)>>

C13_Witness ==
    /\ fstate = "done"
    /\ arg = DnsOneBad
    /\ ret = <<IPv4(1, 1, 1, 1)>>


----------------------------------------------------------------------------
(* Errors of newConfig.                                                    *)

\* C14: when the subnet text does not parse, newConfig returns the error,
\* the program goes on, and the appConfig it was given is as it was.
C14_SubnetErrorReturned ==
    [][(state = "start" /\ subnet'.err) => (state' = "error" /\ config' = config)]_vars

C14_Witness ==
    /\ state = "error"
    /\ subnet.err
    /\ config = ZeroAppConfig


----------------------------------------------------------------------------
(* Peer addresses.                                                         *)

\* The block n is the one address ip: it is a block, of ip, and every bit of
\* its mask is set.
DenotesOnly(n, ip) ==
    LET nm == networkNumberAndMask(n)
    IN  /\ nm.ip # << >>
        /\ Contains(n, ip)
        /\ AllFF(nm.m)

\* C15: clientIpNetToPeer gives, for every block of its argument and in the
\* same order, a block with the same IP and the single-host mask of the
\* width of that address, a block that is exactly that one address, for
\* 4-byte and for 16-byte addresses.
C15_SingleHostBlocks ==
    fstate = "done" =>
        /\ Len(ret) = Len(arg)
        /\ \A i \in 1..Len(arg) :
              /\ ret[i].IP = arg[i].IP
              /\ ret[i].Mask = HostMask(arg[i].IP)
              /\ DenotesOnly(ret[i], arg[i].IP)


----------------------------------------------------------------------------
(* Clamping.                                                               *)

\* Bit k of the byte x, bit 0 being the lowest.
Bit(x, k) == (x \div 2 ^ k) % 2

\* C16: the key newWireguardPrivateKey returns has bits 0, 1 and 2 of its
\* first byte clear, bit 7 of its last byte clear and bit 6 of its last byte
\* set, and every other bit of the 32 bytes is as the random source left it,
\* whatever the source did.
C16_Clamped ==
    fstate = "done" =>
        LET sk   == ret.sk
            last == Len(arg.bytes)
        IN  /\ Len(sk) = last
            /\ \A k \in 0..2 : Bit(sk[1], k) = 0
            /\ Bit(sk[last], 7) = 0
            /\ Bit(sk[last], 6) = 1
            /\ \A i \in 1..last : \A k \in 0..7 :
                  (~(i = 1 /\ k \in 0..2) /\ ~(i = last /\ k \in 6..7))
                      => Bit(sk[i], k) = Bit(arg.bytes[i], k)

C16_Witness ==
    /\ fstate = "done"
    /\ arg.bytes[1] = 255
    /\ arg.bytes[Len(arg.bytes)] = 0
    /\ ret.sk[1] = 248
    /\ ret.sk[Len(ret.sk)] = 64


----------------------------------------------------------------------------
(* The port.                                                               *)

\* The number written after the last colon of an endpoint text.
EndpointPort(endpoint) ==
    DigitsValue(SubSeq(endpoint, Max(IndexSet(endpoint, Colon)) + 1, Len(endpoint)))

\* C17: whatever the user entered at the endpoint prompt, the server's
\* ListenPort is the port number of the Endpoint of every client's server
\* peer, also for a port outside 0..65535.
C17_PortsAgree ==
    Provisioned =>
        \A i \in 1..Len(config.Clients) :
            config.Server.ListenPort = EndpointPort(config.Clients[i].Peers[1].Endpoint)

====
